---- MODULE Spec2Model ----
(***************************************************************************)
(* A model of the web-search MCP server (src/src/index.ts, the search +    *)
(* fetch version, lines 229-646): the CallToolRequestSchema handler, the   *)
(* search extractor performSearch and the fetch pipeline fetchUrl.         *)
(*                                                                         *)
(* Representation.  A JavaScript string that the code inspects character   *)
(* by character (titles, hrefs, snippets, content-type headers, decoded    *)
(* bodies) is a sequence of tokens, each token a TLA+ string: one          *)
(* character ("a", " ", ";"), one decoded code point ("U+00E9"), or a      *)
(* literal of the source taken whole ("Search error").  The empty string   *)
(* is << >>.  A JavaScript value of the tool arguments is a tagged record  *)
(* (JsNum, JsStr, JsBool, JsUndefined).  A byte buffer is a record         *)
(* [head, pad]: the bytes of head followed by pad filler bytes 0x41, so    *)
(* that a body longer than the default ceiling of 200000 bytes is a value  *)
(* TLC can hold.  createHttpClient runs once, when the module is loaded.   *)
(***************************************************************************)
EXTENDS Integers, Sequences, FiniteSets, TLC

\* ------------------------------------------------------------------ bounds

\* Concurrent tool calls the transport has in flight at once.
MaxCalls == 2
\* Result containers on a results page.
MaxPage == 3
\* Explicit bytes at the start of a response body (before the filler).
MaxHead == 2

\* --------------------------------------------------------- program constants

\* `request.params.arguments.limit || 5`
DEFAULT_LIMIT == 5
\* `Math.min(..., 10)`
MAX_LIMIT == 10
\* `max_bytes = 200000`
DEFAULT_MAX_BYTES == 200000
\* `timeout_ms = 15000`
DEFAULT_TIMEOUT_MS == 15000
\* performSearch: `timeout: 15000`
SEARCH_TIMEOUT_MS == 15000
\* `maxRedirects: follow_redirects ? 5 : 0`
MAX_REDIRECTS == 5

Min(a, b) == IF a <= b THEN a ELSE b

\* ------------------------------------------------------- JavaScript values

JsUndefined == [t |-> "undefined", n |-> 0, s |-> "", b |-> FALSE]
JsNum(x) == [t |-> "number", n |-> x, s |-> "", b |-> FALSE]
JsStr(x) == [t |-> "string", n |-> 0, s |-> x, b |-> FALSE]
JsBool(x) == [t |-> "boolean", n |-> 0, s |-> "", b |-> x]

\* typeof v
TypeOf(v) == v.t

\* ToBoolean(v), as `||`, `&&` and `? :` apply it.
Truthy(v) ==
    CASE v.t = "undefined" -> FALSE
      [] v.t = "number" -> v.n # 0
      [] v.t = "string" -> v.s # ""
      [] v.t = "boolean" -> v.b

\* ------------------------------------------------------------------- text

IsSpace(ch) == ch \in {" ", "\t", "\n"}

RECURSIVE TrimStart(_)
TrimStart(s) ==
    IF s = << >> THEN << >>
    ELSE IF IsSpace(Head(s)) THEN TrimStart(Tail(s)) ELSE s

RECURSIVE TrimEnd(_)
TrimEnd(s) ==
    IF s = << >> THEN << >>
    ELSE IF IsSpace(s[Len(s)]) THEN TrimEnd(SubSeq(s, 1, Len(s) - 1)) ELSE s

\* String.prototype.trim
Trim(s) == TrimEnd(TrimStart(s))

UpperCase == <<"A", "B", "C", "D", "E", "F", "G", "H", "I", "J", "K", "L", "M",
               "N", "O", "P", "Q", "R", "S", "T", "U", "V", "W", "X", "Y", "Z">>
LowerCase == <<"a", "b", "c", "d", "e", "f", "g", "h", "i", "j", "k", "l", "m",
               "n", "o", "p", "q", "r", "s", "t", "u", "v", "w", "x", "y", "z">>

LowerChar(ch) ==
    IF \E i \in 1..Len(UpperCase) : UpperCase[i] = ch
    THEN LowerCase[CHOOSE i \in 1..Len(UpperCase) : UpperCase[i] = ch]
    ELSE ch

\* String.prototype.toLowerCase
ToLowerCase(s) == [i \in 1..Len(s) |-> LowerChar(s[i])]

\* Whether the characters of p stand in s from position i on.
MatchesAt(s, p, i) ==
    /\ i >= 1
    /\ i + Len(p) - 1 <= Len(s)
    /\ \A k \in 1..Len(p) : s[i + k - 1] = p[k]

\* /^p/.test(s)
StartsWith(s, p) == MatchesAt(s, p, 1)

\* ---------------------------------------------------------- tool requests

\* request.params.arguments: t is what `typeof` and `=== null` see of the
\* arguments value itself; a property the caller left out is JsUndefined.
ToolArgs(query, limit, url, max_bytes, timeout_ms, follow_redirects) ==
    [t |-> "object", query |-> query, limit |-> limit, url |-> url,
     max_bytes |-> max_bytes, timeout_ms |-> timeout_ms,
     follow_redirects |-> follow_redirects]

SearchArgs(query, limit) ==
    ToolArgs(query, limit, JsUndefined, JsUndefined, JsUndefined, JsUndefined)

FetchArgs(url, max_bytes, timeout_ms, follow_redirects) ==
    ToolArgs(JsUndefined, JsUndefined, url, max_bytes, timeout_ms, follow_redirects)

\* arguments missing (undefined) or null
NoArgs(t) == [SearchArgs(JsUndefined, JsUndefined) EXCEPT !.t = t]

ToolCall(name, arguments) == [name |-> name, arguments |-> arguments]

isValidSearchArgs(args) ==
    /\ args.t = "object"
    /\ TypeOf(args.query) = "string"
    /\ (TypeOf(args.limit) = "undefined" \/ TypeOf(args.limit) = "number")

\* isValidFetchArgs without the follow_redirects test.
isValidFetchArgs_NoRedirectCheck(args) ==
    /\ args.t = "object"
    /\ TypeOf(args.url) = "string"
    /\ (TypeOf(args.max_bytes) = "undefined" \/ TypeOf(args.max_bytes) = "number")
    /\ (TypeOf(args.timeout_ms) = "undefined" \/ TypeOf(args.timeout_ms) = "number")

isValidFetchArgs(args) ==
    /\ args.t = "object"
    /\ TypeOf(args.url) = "string"
    /\ (TypeOf(args.max_bytes) = "undefined" \/ TypeOf(args.max_bytes) = "number")
    /\ (TypeOf(args.timeout_ms) = "undefined" \/ TypeOf(args.timeout_ms) = "number")
    /\ (TypeOf(args.follow_redirects) = "undefined"
        \/ TypeOf(args.follow_redirects) = "boolean")

\* `Math.min(request.params.arguments.limit || 5, 10)`
HandlerLimit(args) ==
    Min(IF Truthy(args.limit) THEN args.limit.n ELSE DEFAULT_LIMIT, MAX_LIMIT)

\* ------------------------------------------------------------- HTTP client

\* process.env: the four proxy variables, each a JavaScript string or undefined.
ProxyEnv(HTTPS_PROXY, https_proxy, HTTP_PROXY, http_proxy) ==
    [HTTPS_PROXY |-> HTTPS_PROXY, https_proxy |-> https_proxy,
     HTTP_PROXY |-> HTTP_PROXY, http_proxy |-> http_proxy]

\* The proxy addresses `new HttpsProxyAgent(address)` cannot parse.
InvalidProxyUrls == {"not a url"}

\* The default `axios` instance.
DirectClient == [instance |-> "axios", httpsAgent |-> ""]

\* axios.create({ proxy: false, httpsAgent: agent })
ProxyClient(address) == [instance |-> "created", httpsAgent |-> address]

\* createHttpClient reading the lower-case variable before the upper-case one.
createHttpClient_LowerCaseFirst(env) ==
    LET proxyEnv ==
            IF Truthy(env.https_proxy) THEN env.https_proxy
            ELSE IF Truthy(env.HTTPS_PROXY) THEN env.HTTPS_PROXY
            ELSE IF Truthy(env.http_proxy) THEN env.http_proxy
            ELSE env.HTTP_PROXY
    IN  IF ~Truthy(proxyEnv) THEN [client |-> DirectClient, warnings |-> 0]
        ELSE IF proxyEnv.s \in InvalidProxyUrls
             THEN [client |-> DirectClient, warnings |-> 1]
             ELSE [client |-> ProxyClient(proxyEnv.s), warnings |-> 0]

\* createHttpClient(), on the process environment env: the client it returns
\* and the number of lines it writes with console.error.
createHttpClient(env) ==
    LET proxyEnv ==
            IF Truthy(env.HTTPS_PROXY) THEN env.HTTPS_PROXY
            ELSE IF Truthy(env.https_proxy) THEN env.https_proxy
            ELSE IF Truthy(env.HTTP_PROXY) THEN env.HTTP_PROXY
            ELSE env.http_proxy
    IN  IF ~Truthy(proxyEnv) THEN [client |-> DirectClient, warnings |-> 0]
        ELSE IF proxyEnv.s \in InvalidProxyUrls
             THEN [client |-> DirectClient, warnings |-> 1]
             ELSE [client |-> ProxyClient(proxyEnv.s), warnings |-> 0]

\* The outcome of one outbound request, as the network decides it: a transport
\* failure (kind "error", with the failure's code), or a chain of `hops`
\* redirects ending in a response with the given status, content-type header
\* and body.  `page` is what cheerio's selectors find in the body and
\* `parseFails` whether cheerio.load throws on it (search only).
Outcome(kind, code, hops, status, contentType, data, page, parseFails) ==
    [kind |-> kind, code |-> code, hops |-> hops, status |-> status,
     contentType |-> contentType, data |-> data, page |-> page,
     parseFails |-> parseFails]

NoHeader == [present |-> FALSE, array |-> FALSE, items |-> << >>]
EmptyBuffer == [head |-> << >>, pad |-> 0]
NoOutcome == Outcome("none", "", 0, 0, NoHeader, EmptyBuffer, << >>, FALSE)

TransportError(code) == Outcome("error", code, 0, 0, NoHeader, EmptyBuffer, << >>, FALSE)

\* The message of the Error axios rejects with.
ErrorMessage(code, config) ==
    CASE code = "ECONNABORTED" -> "timeout of " \o ToString(config.timeout) \o "ms exceeded"
      [] code = "ENOTFOUND" -> "getaddrinfo ENOTFOUND"
      [] code = "ECONNREFUSED" -> "connect ECONNREFUSED"
      [] OTHER -> code

\* The address a redirect chain from url ends at.
RedirectTarget(url) == url \o "/moved"

Thrown(message) == [threw |-> TRUE, message |-> message, status |-> 0,
                    headers |-> {}, data |-> EmptyBuffer,
                    page |-> << >>, parseFails |-> FALSE,
                    responseUrl |-> JsUndefined, configUrl |-> ""]

\* The headers of the response with the given status: the content-type the
\* server sent, and the location of a redirect answer.
ResponseHeaders(config, o, status) ==
    (IF o.contentType.present
     THEN {[name |-> "content-type", array |-> o.contentType.array,
            items |-> o.contentType.items]}
     ELSE {})
    \cup
    (IF status >= 300 /\ status < 400
     THEN {[name |-> "location", array |-> FALSE,
            items |-> << <<RedirectTarget(config.url)>> >>]}
     ELSE {})

Resolved(config, o, status, responseUrl) ==
    [threw |-> FALSE, message |-> "", status |-> status,
     headers |-> ResponseHeaders(config, o, status), data |-> o.data,
     page |-> o.page, parseFails |-> o.parseFails,
     responseUrl |-> responseUrl, configUrl |-> config.url]

\* axios settle(): resolve when validateStatus accepts the status (the default
\* accepts 2xx only), reject with an Error otherwise.
Settle(config, o, status, responseUrl) ==
    IF config.validateStatus = "all" \/ (status >= 200 /\ status < 300)
    THEN Resolved(config, o, status, responseUrl)
    ELSE Thrown("Request failed with status code " \o ToString(status))

\* `await httpClient.get(url, config)` under outcome o.  With maxRedirects 0
\* axios uses the plain http transport: a redirect answer is the response, and
\* the response carries no responseUrl.  Otherwise follow-redirects follows up
\* to maxRedirects hops, fails beyond them, and records the last address in
\* res.responseUrl.
AxiosGet(config, o) ==
    IF o.kind = "error" THEN Thrown(ErrorMessage(o.code, config))
    ELSE IF config.maxRedirects = 0
         THEN Settle(config, o, IF o.hops > 0 THEN 302 ELSE o.status, JsUndefined)
         ELSE IF o.hops > config.maxRedirects
              THEN Thrown("Maximum number of redirects exceeded")
              ELSE Settle(config, o, o.status,
                          JsStr(IF o.hops > 0 THEN RedirectTarget(config.url)
                                ELSE config.url))

\* ---------------------------------------------------------------- search

SEARCH_URL == "https://html.duckduckgo.com/html/"

\* The config of performSearch's request (axios defaults: maxRedirects 5,
\* validateStatus 2xx).
SearchConfig(query, client) ==
    [url |-> SEARCH_URL, q |-> query, timeout |-> SEARCH_TIMEOUT_MS,
     maxRedirects |-> MAX_REDIRECTS, validateStatus |-> "2xx",
     responseType |-> "text", client |-> client]

\* One `.result` container as the selectors see it: title is
\* $el.find('.result__title a').text(), href is .attr('href') (undefined when
\* there is no anchor or no attribute), snippet is
\* $el.find('.result__snippet').text().
Container(title, href, snippet) == [title |-> title, href |-> href, snippet |-> snippet]

JsText(s) == [t |-> "string", s |-> s]
JsNoText == [t |-> "undefined", s |-> << >>]

SearchResult(title, url, description) ==
    [title |-> title, url |-> url, description |-> description]

\* EachResult with the stop test written `results.length > limit`.
RECURSIVE EachResult_StopLate(_, _, _, _)
EachResult_StopLate(page, i, results, limit) ==
    IF i > Len(page) THEN results
    ELSE IF Len(results) > limit THEN results
    ELSE LET el == page[i]
             title == Trim(el.title)
             url == IF el.href.t = "string" /\ el.href.s # << >> THEN el.href.s ELSE << >>
             description == Trim(el.snippet)
         IN  EachResult_StopLate(page, i + 1,
                        IF title # << >> /\ url # << >>
                        THEN Append(results, SearchResult(title, url, description))
                        ELSE results,
                        limit)

\* EachResult with the stop test on the container index, `i >= limit`, so that
\* a skipped container counts against the limit.
RECURSIVE EachResult_CountSkipped(_, _, _, _)
EachResult_CountSkipped(page, i, results, limit) ==
    IF i > Len(page) THEN results
    ELSE IF i - 1 >= limit THEN results
    ELSE LET el == page[i]
             title == Trim(el.title)
             url == IF el.href.t = "string" /\ el.href.s # << >> THEN el.href.s ELSE << >>
             description == Trim(el.snippet)
         IN  EachResult_CountSkipped(page, i + 1,
                        IF title # << >> /\ url # << >>
                        THEN Append(results, SearchResult(title, url, description))
                        ELSE results,
                        limit)

\* The `.each` callback over the containers from the i-th on.
RECURSIVE EachResult(_, _, _, _)
EachResult(page, i, results, limit) ==
    IF i > Len(page) THEN results
    ELSE IF Len(results) >= limit THEN results
    ELSE LET el == page[i]
             title == Trim(el.title)
             url == IF el.href.t = "string" /\ el.href.s # << >> THEN el.href.s ELSE << >>
             description == Trim(el.snippet)
         IN  EachResult(page, i + 1,
                        IF title # << >> /\ url # << >>
                        THEN Append(results, SearchResult(title, url, description))
                        ELSE results,
                        limit)

PARSE_ERROR == "cheerio.load failed"

\* SearchErrorResult with the message dropped for the fixed text.
SearchErrorResult_Unknown(message) ==
    << SearchResult(<<"Search error">>, << >>, <<"Unknown error">>) >>

\* The catch block of performSearch; every value thrown inside the try is an
\* Error instance, whose message is the description.
SearchErrorResult(message) ==
    << SearchResult(<<"Search error">>, << >>, <<message>>) >>

\* How an awaited promise settles: fulfilled with results, or rejected with
\* an Error of the given message.
Fulfilled(results) == [threw |-> FALSE, message |-> "", results |-> results]
Rejected(message) == [threw |-> TRUE, message |-> message, results |-> << >>]

\* performSearch without its try/catch: what is thrown inside leaves it.
performSearch_NoCatch(limit, r) ==
    IF r.threw THEN Rejected(r.message)
    ELSE IF r.parseFails THEN Rejected(PARSE_ERROR)
    ELSE Fulfilled(EachResult(r.page, 1, << >>, limit))

\* performSearch from the await on: r is what httpClient.get settled with.
\* Both its try block and its catch block return, so its promise fulfils.
performSearch(limit, r) ==
    IF r.threw THEN Fulfilled(SearchErrorResult(r.message))
    ELSE IF r.parseFails THEN Fulfilled(SearchErrorResult(PARSE_ERROR))
    ELSE Fulfilled(EachResult(r.page, 1, << >>, limit))

\* JSON.stringify of a string: quotes around it, `"` and `\` escaped.
JsonEscape(ch) ==
    IF ch = "\"" THEN "\\\"" ELSE IF ch = "\\" THEN "\\\\" ELSE ch

JsonString(text) ==
    <<"\"">> \o [i \in 1..Len(text) |-> JsonEscape(text[i])] \o <<"\"">>

\* JSON.stringify(record, null, 2) of one search result inside the array.
JsonRecord(record) ==
    <<"\n  {", "\n    \"title\": ">> \o JsonString(record.title)
    \o <<",", "\n    \"url\": ">> \o JsonString(record.url)
    \o <<",", "\n    \"description\": ">> \o JsonString(record.description)
    \o <<"\n  }">>

RECURSIVE JsonElements(_, _)
JsonElements(results, i) ==
    IF i > Len(results) THEN << >>
    ELSE JsonRecord(results[i])
         \o (IF i < Len(results) THEN <<",">> ELSE << >>)
         \o JsonElements(results, i + 1)

\* JSON.stringify(results, null, 2) of the array performSearch returns.
JsonStringify(results) ==
    IF results = << >> THEN <<"[", "]">>
    ELSE <<"[">> \o JsonElements(results, 1) \o <<"\n", "]">>

\* ------------------------------------------------------------------ fetch

\* FetchConfig that leaves maxRedirects at 5 whatever follow_redirects is.
FetchConfig_AlwaysFollow(url, timeout_ms, follow_redirects, client) ==
    [url |-> url, q |-> "", timeout |-> timeout_ms,
     maxRedirects |-> MAX_REDIRECTS,
     validateStatus |-> "all", responseType |-> "arraybuffer", client |-> client]

\* FetchConfig without `validateStatus: () => true`.
FetchConfig_DefaultValidate(url, timeout_ms, follow_redirects, client) ==
    [url |-> url, q |-> "", timeout |-> timeout_ms,
     maxRedirects |-> IF follow_redirects THEN MAX_REDIRECTS ELSE 0,
     validateStatus |-> "2xx", responseType |-> "arraybuffer", client |-> client]

\* The config of fetchUrl's request.
FetchConfig(url, timeout_ms, follow_redirects, client) ==
    [url |-> url, q |-> "", timeout |-> timeout_ms,
     maxRedirects |-> IF follow_redirects THEN MAX_REDIRECTS ELSE 0,
     validateStatus |-> "all", responseType |-> "arraybuffer", client |-> client]

\* The destructuring defaults of fetchUrl: a default applies to undefined.
ArgMaxBytes(args) ==
    IF TypeOf(args.max_bytes) = "undefined" THEN JsNum(DEFAULT_MAX_BYTES) ELSE args.max_bytes
ArgTimeoutMs(args) ==
    IF TypeOf(args.timeout_ms) = "undefined" THEN DEFAULT_TIMEOUT_MS ELSE args.timeout_ms.n
ArgFollowRedirects(args) ==
    IF TypeOf(args.follow_redirects) = "undefined" THEN TRUE ELSE args.follow_redirects.b

\* `typeof max_bytes === 'number' && max_bytes > 0 ? max_bytes : 200000`
NormalizeMaxBytes(max_bytes) ==
    IF TypeOf(max_bytes) = "number" /\ max_bytes.n > 0 THEN max_bytes.n
    ELSE DEFAULT_MAX_BYTES

JsNull == [t |-> "null", s |-> << >>]

\* response.headers['content-type']
RawContentType(headers) ==
    IF \E h \in headers : h.name = "content-type"
    THEN CHOOSE h \in headers : h.name = "content-type"
    ELSE [name |-> "content-type", array |-> FALSE, items |-> << >>]

\* `Array.isArray(raw) ? raw[0] : raw || null`
ContentTypeOf(headers) ==
    LET raw == RawContentType(headers)
    IN  IF raw.array
        THEN (IF Len(raw.items) > 0 THEN JsText(raw.items[1]) ELSE JsNoText)
        ELSE IF Len(raw.items) > 0 /\ raw.items[1] # << >>
             THEN JsText(raw.items[1]) ELSE JsNull

CHARSET_EQ == <<"c", "h", "a", "r", "s", "e", "t", "=">>

\* Where /charset=([^;]+)/i matches in s first (0: nowhere).
CharsetMatchStart(s) ==
    LET low == ToLowerCase(s)
        hits == {i \in 1..Len(s) :
                    /\ MatchesAt(low, CHARSET_EQ, i)
                    /\ i + Len(CHARSET_EQ) <= Len(s)
                    /\ s[i + Len(CHARSET_EQ)] # ";"}
    IN  IF hits = {} THEN 0 ELSE CHOOSE i \in hits : \A j \in hits : i <= j

\* match[1]: the longest run of characters other than ";" from position k on.
RECURSIVE CaptureFrom(_, _)
CaptureFrom(s, k) ==
    IF k > Len(s) \/ s[k] = ";" THEN << >>
    ELSE <<s[k]>> \o CaptureFrom(s, k + 1)

\* The charset extraction of fetchUrl: null, or match[1].trim().toLowerCase().
DetectEncoding(contentType) ==
    IF contentType.t = "string" /\ contentType.s # << >>
    THEN LET i == CharsetMatchStart(contentType.s)
         IN  IF i = 0 THEN JsNull
             ELSE JsText(ToLowerCase(Trim(CaptureFrom(contentType.s, i + Len(CHARSET_EQ)))))
    ELSE JsNull

\* buffer.byteLength
ByteLength(buffer) == Len(buffer.head) + buffer.pad

\* buffer.subarray(0, n)
Subarray(buffer, n) ==
    IF n <= Len(buffer.head)
    THEN [head |-> SubSeq(buffer.head, 1, n), pad |-> 0]
    ELSE [head |-> buffer.head, pad |-> Min(buffer.pad, n - Len(buffer.head))]

\* Truncate with the test written `buffer.byteLength >= maxBytes`.
Truncate_AtCeiling(buffer, maxBytes) ==
    IF ByteLength(buffer) >= maxBytes
    THEN [limitedBuffer |-> Subarray(buffer, maxBytes), truncated |-> TRUE]
    ELSE [limitedBuffer |-> buffer, truncated |-> FALSE]

\* The truncation step of fetchUrl.
Truncate(buffer, maxBytes) ==
    IF ByteLength(buffer) > maxBytes
    THEN [limitedBuffer |-> Subarray(buffer, maxBytes), truncated |-> TRUE]
    ELSE [limitedBuffer |-> buffer, truncated |-> FALSE]

IMAGE == <<"i", "m", "a", "g", "e", "/">>
AUDIO == <<"a", "u", "d", "i", "o", "/">>
VIDEO == <<"v", "i", "d", "e", "o", "/">>
APPLICATION == <<"a", "p", "p", "l", "i", "c", "a", "t", "i", "o", "n", "/">>
OCTET_STREAM == APPLICATION \o <<"o", "c", "t", "e", "t", "-", "s", "t", "r", "e", "a", "m">>

\* IsBinary with application/octet-stream tested as a prefix too.
IsBinary_OctetPrefix(contentType) ==
    LET ct == IF contentType.t = "string" /\ contentType.s # << >>
              THEN ToLowerCase(contentType.s) ELSE << >>
    IN  \/ StartsWith(ct, IMAGE)
        \/ StartsWith(ct, AUDIO)
        \/ StartsWith(ct, VIDEO)
        \/ StartsWith(ct, APPLICATION \o <<"p", "d", "f">>)
        \/ StartsWith(ct, APPLICATION \o <<"z", "i", "p">>)
        \/ StartsWith(ct, APPLICATION \o <<"x", "-">>)
        \/ StartsWith(ct, OCTET_STREAM)

\* The isBinary test of fetchUrl on the content type.
IsBinary(contentType) ==
    LET ct == IF contentType.t = "string" /\ contentType.s # << >>
              THEN ToLowerCase(contentType.s) ELSE << >>
    IN  \/ StartsWith(ct, IMAGE)
        \/ StartsWith(ct, AUDIO)
        \/ StartsWith(ct, VIDEO)
        \/ StartsWith(ct, APPLICATION \o <<"p", "d", "f">>)
        \/ StartsWith(ct, APPLICATION \o <<"z", "i", "p">>)
        \/ StartsWith(ct, APPLICATION \o <<"x", "-">>)
        \/ ct = OCTET_STREAM

UTF_8 == <<"u", "t", "f", "-", "8">>
ISO_8859_1 == <<"i", "s", "o", "-", "8", "8", "5", "9", "-", "1">>

\* The encoding labels `new TextDecoder(label)` accepts; any other label makes
\* the constructor throw a RangeError.
Utf8Labels == {UTF_8, <<"u", "t", "f", "8">>}
Latin1Labels == {ISO_8859_1, <<"l", "a", "t", "i", "n", "1">>}

CodePoint(n) == "U+" \o ToString(n)
REPLACEMENT == CodePoint(65533)

\* UTF-8 decoding without `fatal`: one- and two-byte sequences, every
\* malformed byte giving U+FFFD.
RECURSIVE Utf8Decode(_)
Utf8Decode(bytes) ==
    IF bytes = << >> THEN << >>
    ELSE LET b == Head(bytes)
         IN  IF b < 128 THEN <<CodePoint(b)>> \o Utf8Decode(Tail(bytes))
             ELSE IF b >= 194 /\ b <= 223 /\ Len(bytes) >= 2
                     /\ bytes[2] >= 128 /\ bytes[2] <= 191
                  THEN <<CodePoint((b - 192) * 64 + (bytes[2] - 128))>>
                       \o Utf8Decode(Tail(Tail(bytes)))
                  ELSE <<REPLACEMENT>> \o Utf8Decode(Tail(bytes))

\* windows-1252 decoding (the decoder behind the iso-8859-1 labels), for the
\* bytes outside 0x80-0x9F: each byte is its own code point.
Latin1Decode(bytes) == [i \in 1..Len(bytes) |-> CodePoint(bytes[i])]

\* The filler bytes are 0x41, which both decoders map to U+0041 wherever they
\* stand, so the decoded text of a buffer is the decoded head and as many
\* U+0041 as there are filler bytes.
DecodeBuffer(label, buffer) ==
    [head |-> IF label \in Latin1Labels THEN Latin1Decode(buffer.head)
              ELSE Utf8Decode(buffer.head),
     pad |-> buffer.pad]

Literal(text) == [head |-> <<text>>, pad |-> 0]

\* ToBoolean of a text value or null: null and "" are falsy.
TextTruthy(v) == v.t = "string" /\ v.s # << >>

\* `new TextDecoder(label)` throws a RangeError for a label it does not know;
\* `decode` itself, without `fatal`, never throws.
TextDecoderThrows(label) == label \notin Utf8Labels \cup Latin1Labels

\* The fallback decodes with latin1 instead of utf-8.
DecodeBody_Latin1Fallback(encoding, limitedBuffer) ==
    LET charset == IF TextTruthy(encoding) THEN encoding.s ELSE UTF_8
    IN  IF ~TextDecoderThrows(charset)
        THEN [body |-> DecodeBuffer(charset, limitedBuffer), encoding |-> encoding,
              caught |-> FALSE, assigned |-> FALSE]
        ELSE [body |-> DecodeBuffer(ISO_8859_1, limitedBuffer),
              encoding |-> IF TextTruthy(encoding) THEN encoding ELSE JsText(UTF_8),
              caught |-> TRUE, assigned |-> ~TextTruthy(encoding)]

\* The fallback sets the encoding to utf-8 whatever was detected.
DecodeBody_OverwriteEncoding(encoding, limitedBuffer) ==
    LET charset == IF TextTruthy(encoding) THEN encoding.s ELSE UTF_8
    IN  IF ~TextDecoderThrows(charset)
        THEN [body |-> DecodeBuffer(charset, limitedBuffer), encoding |-> encoding,
              caught |-> FALSE, assigned |-> FALSE]
        ELSE [body |-> DecodeBuffer(UTF_8, limitedBuffer),
              encoding |-> JsText(UTF_8),
              caught |-> TRUE, assigned |-> TRUE]

\* The decode step of fetchUrl, with its catch: the body, the encoding after
\* it, whether the catch block ran and whether it assigned `encoding = 'utf-8'`.
DecodeBody(encoding, limitedBuffer) ==
    LET charset == IF TextTruthy(encoding) THEN encoding.s ELSE UTF_8
    IN  IF ~TextDecoderThrows(charset)
        THEN [body |-> DecodeBuffer(charset, limitedBuffer), encoding |-> encoding,
              caught |-> FALSE, assigned |-> FALSE]
        ELSE [body |-> DecodeBuffer(UTF_8, limitedBuffer),
              encoding |-> IF TextTruthy(encoding) THEN encoding ELSE JsText(UTF_8),
              caught |-> TRUE, assigned |-> ~TextTruthy(encoding)]

FinalUrl(url, r) ==
    IF Truthy(r.responseUrl) THEN r.responseUrl.s
    ELSE IF r.configUrl # "" THEN r.configUrl
    ELSE url

FetchResult(url, final_url, status, content_type, encoding, headers, body, truncated) ==
    [url |-> url, final_url |-> final_url, status |-> status,
     content_type |-> content_type, encoding |-> encoding, headers |-> headers,
     body |-> body, truncated |-> truncated]

\* FetchErrorResult that reports an empty final_url.
FetchErrorResult_NoFinalUrl(url, message) ==
    FetchResult(url, "", 0, JsNull, JsNull, {}, Literal(message), FALSE)

\* The catch block of fetchUrl.
FetchErrorResult(url, message) ==
    FetchResult(url, url, 0, JsNull, JsNull, {}, Literal(message), FALSE)

UNSUPPORTED == "Unsupported content-type"

\* fetchUrl from the await on: r is what httpClient.get settled with.  Beside
\* the result it returns, the record tells whether the decode's catch block
\* ran and whether that block assigned the encoding.
fetchUrl(args, maxBytes, r) ==
    LET url == args.url.s
    IN  IF r.threw
        THEN [result |-> FetchErrorResult(url, r.message),
              caught |-> FALSE, assigned |-> FALSE]
        ELSE LET contentType == ContentTypeOf(r.headers)
                 detected == DetectEncoding(contentType)
                 cut == Truncate(r.data, maxBytes)
                 decoded == DecodeBody(detected, cut.limitedBuffer)
                 binary == IsBinary(contentType)
             IN  [result |->
                     FetchResult(url, FinalUrl(url, r), r.status, contentType,
                                 IF binary THEN detected ELSE decoded.encoding,
                                 r.headers,
                                 IF binary THEN Literal(UNSUPPORTED) ELSE decoded.body,
                                 cut.truncated),
                  caught |-> ~binary /\ decoded.caught,
                  assigned |-> ~binary /\ decoded.assigned]

\* ------------------------------------------------------------------ inputs

\* Content-type header values servers send.
CT_HTML ==
    <<"t", "e", "x", "t", "/", "h", "t", "m", "l">>
CT_HTML_UTF8 ==
    <<"t", "e", "x", "t", "/", "h", "t", "m", "l", ";", " ", "c", "h", "a",
    "r", "s", "e", "t", "=", "U", "T", "F", "-", "8">>
CT_PLAIN_LATIN1 ==
    <<"t", "e", "x", "t", "/", "p", "l", "a", "i", "n", ";", "c", "h", "a",
    "r", "s", "e", "t", "=", "I", "S", "O", "-", "8", "8", "5", "9", "-",
    "1">>
CT_PLAIN_BOGUS ==
    <<"t", "e", "x", "t", "/", "p", "l", "a", "i", "n", ";", " ", "c", "h",
    "a", "r", "s", "e", "t", "=", "b", "o", "g", "u", "s">>
CT_HTML_SPACED ==
    <<"t", "e", "x", "t", "/", "h", "t", "m", "l", ";", " ",
      "C", "h", "a", "r", "s", "e", "t", "=", " ", "U", "T", "F", "-", "8", " ",
      ";", "q", "=", "1">>
CT_HTML_BLANK ==
    <<"t", "e", "x", "t", "/", "h", "t", "m", "l", ";", " ",
      "c", "h", "a", "r", "s", "e", "t", "=", " ", ";", "q", "=", "1">>
CT_PNG ==
    <<"i", "m", "a", "g", "e", "/", "p", "n", "g">>
CT_PNG_UPPER ==
    <<"I", "m", "a", "g", "e", "/", "P", "N", "G">>
CT_MPEG ==
    <<"a", "u", "d", "i", "o", "/", "m", "p", "e", "g">>
CT_MP4 ==
    <<"v", "i", "d", "e", "o", "/", "m", "p", "4">>
CT_PDF ==
    <<"a", "p", "p", "l", "i", "c", "a", "t", "i", "o", "n", "/", "p", "d",
    "f">>
CT_ZIP ==
    <<"a", "p", "p", "l", "i", "c", "a", "t", "i", "o", "n", "/", "z", "i",
    "p">>
CT_X_TAR ==
    <<"a", "p", "p", "l", "i", "c", "a", "t", "i", "o", "n", "/", "x", "-",
    "t", "a", "r">>
CT_OCTET ==
    <<"a", "p", "p", "l", "i", "c", "a", "t", "i", "o", "n", "/", "o", "c",
    "t", "e", "t", "-", "s", "t", "r", "e", "a", "m">>
CT_OCTET_PARAM ==
    <<"a", "p", "p", "l", "i", "c", "a", "t", "i", "o", "n", "/", "o", "c",
    "t", "e", "t", "-", "s", "t", "r", "e", "a", "m", ";", " ", "c", "h",
    "a", "r", "s", "e", "t", "=", "u", "t", "f", "-", "8">>
CT_JSON ==
    <<"a", "p", "p", "l", "i", "c", "a", "t", "i", "o", "n", "/", "j", "s",
    "o", "n">>

Header(text) == [present |-> TRUE, array |-> FALSE, items |-> <<text>>]
HeaderArray(texts) == [present |-> TRUE, array |-> TRUE, items |-> texts]

ContentTypes ==
    {NoHeader, HeaderArray(<<CT_HTML, CT_PNG>>)}
    \cup {Header(t) : t \in {CT_HTML,
                             CT_HTML_UTF8,
                             CT_PLAIN_LATIN1,
                             CT_PLAIN_BOGUS,
                             CT_HTML_SPACED,
                             CT_HTML_BLANK,
                             CT_PNG,
                             CT_PNG_UPPER,
                             CT_MPEG,
                             CT_MP4,
                             CT_PDF,
                             CT_ZIP,
                             CT_X_TAR,
                             CT_OCTET,
                             CT_OCTET_PARAM,
                             CT_JSON}}

\* Bytes of response bodies: "A", and the two bytes of U+00E9 in UTF-8.
Bytes == {65, 195, 169}

SeqsUpTo(S, n) == UNION {[1..k -> S] : k \in 0..n}

\* Response bodies: up to MaxHead explicit bytes, alone or followed by
\* DEFAULT_MAX_BYTES filler bytes.
Buffers == {[head |-> h, pad |-> p] : h \in SeqsUpTo(Bytes, MaxHead),
                                       p \in {0, DEFAULT_MAX_BYTES}}

ErrorCodes == {"ENOTFOUND", "ECONNREFUSED", "ECONNABORTED"}

\* Lengths of the redirect chains a server answers with.
Hops == {0, 1, MAX_REDIRECTS + 1}

\* What a fetch request meets: a transport failure; a 200 answer with every
\* content type and every body; an answer of another status; a redirect chain.
FetchOutcomes ==
    {TransportError(code) : code \in ErrorCodes}
    \cup {Outcome("response", "", 0, 200, ct, d, << >>, FALSE) :
            ct \in ContentTypes, d \in Buffers}
    \cup {Outcome("response", "", 0, st, ct, [head |-> h, pad |-> 0], << >>, FALSE) :
            st \in {204, 404, 500}, ct \in {NoHeader, Header(CT_HTML)},
            h \in SeqsUpTo(Bytes, MaxHead)}
    \cup {Outcome("response", "", h, st, ct, [head |-> <<65, 195>>, pad |-> 0],
                  << >>, FALSE) :
            h \in Hops \ {0}, st \in {200, 404}, ct \in {Header(CT_HTML), Header(CT_PNG)}}

FETCH_URL == "http://a.example"

ValidFetchArgs ==
    {FetchArgs(JsStr(FETCH_URL), mb, t, f) :
        mb \in {JsUndefined} \cup {JsNum(n) : n \in -1..MaxHead},
        t \in {JsUndefined, JsNum(1000)},
        f \in {JsUndefined, JsBool(TRUE), JsBool(FALSE)}}

InvalidFetchArgs ==
    {NoArgs("undefined"), NoArgs("null"),
     FetchArgs(JsUndefined, JsUndefined, JsUndefined, JsUndefined),
     FetchArgs(JsNum(7), JsUndefined, JsUndefined, JsUndefined),
     FetchArgs(JsStr(FETCH_URL), JsStr("10"), JsUndefined, JsUndefined),
     FetchArgs(JsStr(FETCH_URL), JsUndefined, JsStr("1000"), JsUndefined),
     FetchArgs(JsStr(FETCH_URL), JsUndefined, JsUndefined, JsStr("no"))}

\* Result containers of a results page.
Containers ==
    {Container(<<"a">>, JsText(<<"u", "1">>), <<"\"", "d", " ">>),
     Container(<<" ", "b", " ">>, JsText(<<"u", "2">>), << >>),
     Container(<< >>, JsText(<<"u", "1">>), <<"d">>),
     Container(<<" ">>, JsText(<<"u", "1">>), <<"d">>),
     Container(<<"a">>, JsNoText, <<"d">>),
     Container(<<"a">>, JsText(<< >>), <<"d">>),
     Container(<< >>, JsNoText, << >>)}

Pages == SeqsUpTo(Containers, MaxPage)

SearchOutcomes ==
    {TransportError(code) : code \in ErrorCodes}
    \cup {Outcome("response", "", 0, 200, Header(CT_HTML), EmptyBuffer, pg, FALSE) :
            pg \in Pages}
    \cup {Outcome("response", "", 0, st, Header(CT_HTML), EmptyBuffer, << >>, FALSE) :
            st \in {403, 503}}
    \cup {Outcome("response", "", MAX_REDIRECTS + 1, 200, Header(CT_HTML), EmptyBuffer,
                  << >>, FALSE),
          Outcome("response", "", 0, 200, Header(CT_HTML), EmptyBuffer, << >>, TRUE)}

QUERY == "tla"

\* The numbers a caller passes as limit.
Limits == (-1..(MaxPage + 1)) \cup {MAX_LIMIT, MAX_LIMIT + 1}

ValidSearchArgs ==
    {SearchArgs(JsStr(QUERY), l) : l \in {JsUndefined} \cup {JsNum(n) : n \in Limits}}

InvalidSearchArgs ==
    {NoArgs("undefined"), NoArgs("null"),
     SearchArgs(JsUndefined, JsUndefined),
     SearchArgs(JsNum(7), JsUndefined),
     SearchArgs(JsStr(QUERY), JsStr("3"))}

PROXY_URL == "http://proxy.example:3128"

ProxyEnvs ==
    {ProxyEnv(JsUndefined, JsUndefined, JsUndefined, JsUndefined),
     ProxyEnv(JsStr(PROXY_URL), JsUndefined, JsUndefined, JsUndefined),
     ProxyEnv(JsStr(""), JsUndefined, JsUndefined, JsStr("not a url"))}

OTHER_PROXY_URL == "http://other.example:8080"

\* Every setting of the four variables: unset, empty, one of two proxy
\* addresses, or an address no agent can be built for.
ProxyValues ==
    {JsUndefined, JsStr(""), JsStr(PROXY_URL), JsStr(OTHER_PROXY_URL)}
    \cup {JsStr(u) : u \in InvalidProxyUrls}

AllProxyEnvs ==
    {ProxyEnv(a, b, c, d) : a \in ProxyValues, b \in ProxyValues,
                            c \in ProxyValues, d \in ProxyValues}

\* ------------------------------------------------------------------- state

CallIds == 1..MaxCalls

VARIABLES
    env,        \* process.env when the module was loaded
    warnings,   \* the number of lines createHttpClient wrote with console.error
    httpClient, \* the shared client, `const httpClient = createHttpClient()`
    pc,         \* per call: "idle", "awaiting" (at `await httpClient.get`),
                \* "returned" (the handler returned), "rejected" (it threw McpError)
    call,       \* per call: request.params
    frame,      \* per call: the locals of the handler and of the function it awaits
    outbound,   \* per call: the configs of the requests issued through httpClient
    received,   \* per call: the outcome the network gave its request
    reply,      \* per call: what the handler gave the dispatcher
    overlapped  \* per call: whether another call was awaiting when it settled

vars == <<env, warnings, httpClient, pc, call, frame, outbound, received, reply,
          overlapped>>

NoCall == ToolCall("", NoArgs("undefined"))
NoFrame == [limit |-> 0, maxBytes |-> 0, caught |-> FALSE, assigned |-> FALSE]
NoFetchResult == FetchResult("", "", -1, JsNull, JsNull, {}, Literal(""), FALSE)
NoReply == [kind |-> "none", code |-> "", isError |-> FALSE, text |-> << >>,
            results |-> << >>, fetch |-> NoFetchResult]

\* throw new McpError(code, ...)
McpError(code) == [NoReply EXCEPT !.kind = "error", !.code = code]
\* return { content: [{ type: 'text', text: JSON.stringify(results, null, 2) }] }
\* `results` keeps the array that was serialized.
SearchReply(results) ==
    [NoReply EXCEPT !.kind = "search", !.text = JsonStringify(results),
                    !.results = results]
\* return { content: [{ type: 'text', text: `Search error: ${message}` }],
\*          isError: true }
SearchErrorReply(message) ==
    [NoReply EXCEPT !.kind = "search", !.text = <<"Search error: ", message>>,
                    !.isError = TRUE]
\* return { content: [{ type: 'text', text: JSON.stringify(result, null, 2) }] }
\* `fetch` is the object that was serialized; its text, as long as the body
\* it carries, is not spelled out.
FetchReply(result) == [NoReply EXCEPT !.kind = "fetch", !.fetch = result]

\* The try/catch of the search branch around `await this.performSearch(...)`.
SearchHandlerReturn(settled) ==
    IF settled.threw THEN SearchErrorReply(settled.message)
    ELSE SearchReply(settled.results)

\* The module is loaded in an environment out of envs: createHttpClient runs
\* once, and no call has arrived.
Startup(envs) ==
    /\ env \in envs
    /\ httpClient = createHttpClient(env).client
    /\ warnings = createHttpClient(env).warnings
    /\ pc = [c \in CallIds |-> "idle"]
    /\ call = [c \in CallIds |-> NoCall]
    /\ frame = [c \in CallIds |-> NoFrame]
    /\ outbound = [c \in CallIds |-> << >>]
    /\ received = [c \in CallIds |-> NoOutcome]
    /\ reply = [c \in CallIds |-> NoReply]
    /\ overlapped = [c \in CallIds |-> FALSE]

Init == Startup(ProxyEnvs)

\* The CallToolRequestSchema handler on request.params = req, up to its first
\* await: the argument check, the locals, and the request it issues.
HandlerStart(req) ==
    IF req.name = "search"
    THEN IF ~isValidSearchArgs(req.arguments)
         THEN [pc |-> "rejected", reply |-> McpError("InvalidParams"),
               frame |-> NoFrame, requests |-> << >>]
         ELSE [pc |-> "awaiting", reply |-> NoReply,
               frame |-> [NoFrame EXCEPT !.limit = HandlerLimit(req.arguments)],
               requests |-> <<SearchConfig(req.arguments.query.s, httpClient)>>]
    ELSE IF req.name = "fetch"
    THEN IF ~isValidFetchArgs(req.arguments)
         THEN [pc |-> "rejected", reply |-> McpError("InvalidParams"),
               frame |-> NoFrame, requests |-> << >>]
         ELSE [pc |-> "awaiting", reply |-> NoReply,
               frame |-> [NoFrame EXCEPT
                            !.maxBytes = NormalizeMaxBytes(ArgMaxBytes(req.arguments))],
               requests |-> <<FetchConfig(req.arguments.url.s,
                                          ArgTimeoutMs(req.arguments),
                                          ArgFollowRedirects(req.arguments),
                                          httpClient)>>]
    ELSE [pc |-> "rejected", reply |-> McpError("MethodNotFound"),
          frame |-> NoFrame, requests |-> << >>]

\* A tool call arrives and the handler runs to its first await or its throw.
CallTool(c, req) ==
    /\ pc[c] = "idle"
    /\ LET h == HandlerStart(req)
       IN  /\ pc' = [pc EXCEPT ![c] = h.pc]
           /\ call' = [call EXCEPT ![c] = req]
           /\ frame' = [frame EXCEPT ![c] = h.frame]
           /\ outbound' = [outbound EXCEPT ![c] = outbound[c] \o h.requests]
           /\ reply' = [reply EXCEPT ![c] = h.reply]
    /\ UNCHANGED <<env, warnings, httpClient, received, overlapped>>

\* Whether a call other than c is at its await.
OthersAwaiting(c) == \E d \in CallIds \ {c} : pc[d] = "awaiting"

\* performSearch with the retry written into it: a failed request is issued
\* once more before the failure is reported.
SearchSettles_Retry(c, o) ==
    /\ pc[c] = "awaiting"
    /\ call[c].name = "search"
    /\ received' = [received EXCEPT ![c] = o]
    /\ IF o.kind = "error" /\ Len(outbound[c]) < 2
       THEN /\ outbound' = [outbound EXCEPT ![c] = outbound[c] \o <<outbound[c][1]>>]
            /\ UNCHANGED <<reply, pc, overlapped>>
       ELSE /\ reply' = [reply EXCEPT ![c] =
                    SearchHandlerReturn(
                        performSearch(frame[c].limit,
                                      AxiosGet(outbound[c][Len(outbound[c])], o)))]
            /\ pc' = [pc EXCEPT ![c] = "returned"]
            /\ overlapped' = [overlapped EXCEPT ![c] = OthersAwaiting(c)]
            /\ UNCHANGED outbound
    /\ UNCHANGED <<env, warnings, httpClient, call, frame>>

\* The request of a search call settles: performSearch finishes and the
\* handler returns its results.
SearchSettles(c, o) ==
    /\ pc[c] = "awaiting"
    /\ call[c].name = "search"
    /\ received' = [received EXCEPT ![c] = o]
    /\ reply' = [reply EXCEPT ![c] =
                    SearchHandlerReturn(
                        performSearch(frame[c].limit,
                                      AxiosGet(outbound[c][Len(outbound[c])], o)))]
    /\ pc' = [pc EXCEPT ![c] = "returned"]
    /\ overlapped' = [overlapped EXCEPT ![c] = OthersAwaiting(c)]
    /\ UNCHANGED <<env, warnings, httpClient, call, frame, outbound>>

\* fetchUrl reading the ceiling and the arguments of the call that arrived
\* first, as if they were kept in one place for all calls.
FetchSettles_SharedLocals(c, o) ==
    /\ pc[c] = "awaiting"
    /\ call[c].name = "fetch"
    /\ received' = [received EXCEPT ![c] = o]
    /\ LET f == fetchUrl(call[c].arguments, frame[1].maxBytes,
                         AxiosGet(outbound[c][Len(outbound[c])], o))
       IN  /\ reply' = [reply EXCEPT ![c] = FetchReply(f.result)]
           /\ frame' = [frame EXCEPT ![c].caught = f.caught,
                                     ![c].assigned = f.assigned]
    /\ pc' = [pc EXCEPT ![c] = "returned"]
    /\ overlapped' = [overlapped EXCEPT ![c] = OthersAwaiting(c)]
    /\ UNCHANGED <<env, warnings, httpClient, call, outbound>>

\* The request of a fetch call settles: fetchUrl finishes and the handler
\* returns its result.
FetchSettles(c, o) ==
    /\ pc[c] = "awaiting"
    /\ call[c].name = "fetch"
    /\ received' = [received EXCEPT ![c] = o]
    /\ LET f == fetchUrl(call[c].arguments, frame[c].maxBytes,
                         AxiosGet(outbound[c][Len(outbound[c])], o))
       IN  /\ reply' = [reply EXCEPT ![c] = FetchReply(f.result)]
           /\ frame' = [frame EXCEPT ![c].caught = f.caught,
                                     ![c].assigned = f.assigned]
    /\ pc' = [pc EXCEPT ![c] = "returned"]
    /\ overlapped' = [overlapped EXCEPT ![c] = OthersAwaiting(c)]
    /\ UNCHANGED <<env, warnings, httpClient, call, outbound>>

\* One search call at a time, over every page and every limit.
SearchCalls == {ToolCall("search", a) : a \in ValidSearchArgs \cup InvalidSearchArgs}

NextSearch ==
    \/ \E req \in SearchCalls : CallTool(1, req)
    \/ \E o \in SearchOutcomes : SearchSettles(1, o)

SpecSearch == Init /\ [][NextSearch]_vars

\* One fetch call at a time, over every response and every argument.
FetchCalls == {ToolCall("fetch", a) : a \in ValidFetchArgs \cup InvalidFetchArgs}

NextFetch ==
    \/ \E req \in FetchCalls : CallTool(1, req)
    \/ \E o \in FetchOutcomes : FetchSettles(1, o)

SpecFetch == Init /\ [][NextFetch]_vars

\* Concurrent calls of both tools, valid and invalid, each over a few outcomes.
ToolCalls ==
    {ToolCall("search", a) :
        a \in {SearchArgs(JsStr(QUERY), JsUndefined), SearchArgs(JsStr(QUERY), JsNum(1))}
              \cup InvalidSearchArgs}
    \cup {ToolCall("fetch", a) :
            a \in {FetchArgs(JsStr(FETCH_URL), JsUndefined, JsUndefined, JsUndefined),
                   FetchArgs(JsStr(FETCH_URL), JsNum(1), JsNum(1000), JsBool(FALSE))}
                  \cup InvalidFetchArgs}
    \cup {ToolCall("browse", SearchArgs(JsStr(QUERY), JsUndefined))}

ToolSearchOutcomes ==
    {TransportError("ENOTFOUND"),
     Outcome("response", "", 0, 200, Header(CT_HTML), EmptyBuffer,
             <<Container(<<"a">>, JsText(<<"u", "1">>), <<"d", " ">>),
               Container(<<" ", "b", " ">>, JsText(<<"u", "2">>), << >>)>>, FALSE)}

ToolFetchOutcomes ==
    {TransportError("ECONNABORTED"),
     Outcome("response", "", 1, 200, Header(CT_HTML), [head |-> <<65, 195>>, pad |-> 0],
             << >>, FALSE)}

Next ==
    \E c \in CallIds :
        \/ \E req \in ToolCalls : CallTool(c, req)
        \/ \E o \in ToolSearchOutcomes : SearchSettles(c, o)
        \/ \E o \in ToolFetchOutcomes : FetchSettles(c, o)

Spec == Init /\ [][Next]_vars

\* One call of either tool, the module having been loaded in any environment.
InitClient == Startup(AllProxyEnvs)

NextClient ==
    \/ \E req \in ToolCalls : CallTool(1, req)
    \/ \E o \in ToolSearchOutcomes : SearchSettles(1, o)
    \/ \E o \in ToolFetchOutcomes : FetchSettles(1, o)

SpecClient == InitClient /\ [][NextClient]_vars

\* ------------------------------------------------------------ properties

Max(a, b) == IF a >= b THEN a ELSE b

\* The first n elements of s (none when n is not positive).
Take(s, n) == SubSeq(s, 1, Min(Len(s), Max(n, 0)))

SearchReturned(c) == pc[c] = "returned" /\ call[c].name = "search"
FetchReturned(c) == pc[c] = "returned" /\ call[c].name = "fetch"

\* The caller passed a limit in [1,10].
LimitInRange(c) ==
    /\ TypeOf(call[c].arguments.limit) = "number"
    /\ call[c].arguments.limit.n >= 1
    /\ call[c].arguments.limit.n <= MAX_LIMIT

\* The search request or the parse failed: a transport failure, a redirect
\* chain longer than the client follows, a status outside 2xx, a parse error.
SearchFailed(o) ==
    \/ o.kind = "error"
    \/ /\ o.kind = "response"
       /\ (o.hops > MAX_REDIRECTS \/ o.status < 200 \/ o.status >= 300 \/ o.parseFails)

\* The message of the failure the search request met.
SearchFailureMessage(o) ==
    IF o.kind = "error"
    THEN (CASE o.code = "ECONNABORTED" -> "timeout of 15000ms exceeded"
            [] o.code = "ENOTFOUND" -> "getaddrinfo ENOTFOUND"
            [] o.code = "ECONNREFUSED" -> "connect ECONNREFUSED")
    ELSE IF o.hops > MAX_REDIRECTS THEN "Maximum number of redirects exceeded"
    ELSE IF o.status = 403 THEN "Request failed with status code 403"
    ELSE IF o.status = 503 THEN "Request failed with status code 503"
    ELSE "cheerio.load failed"

\* C1 as stated: for every limit in [1,10] and every response, a failed
\* request included, search returns at most limit records, each with a
\* non-empty title and a non-empty url.
C1_EveryRecordHasTitleAndUrl ==
    \A c \in CallIds :
        (SearchReturned(c) /\ LimitInRange(c)) =>
            /\ Len(reply[c].results) <= call[c].arguments.limit.n
            /\ \A i \in 1..Len(reply[c].results) :
                /\ reply[c].results[i].title # << >>
                /\ reply[c].results[i].url # << >>

\* C1 amended: for every limit in [1,10] and every response, search returns
\* at most limit records, each with a non-empty title, and each with a
\* non-empty url except the single "Search error" record of a failed request.
C1_UrlEmptyOnlyInErrorRecord ==
    \A c \in CallIds :
        (SearchReturned(c) /\ LimitInRange(c)) =>
            /\ Len(reply[c].results) <= call[c].arguments.limit.n
            /\ \A i \in 1..Len(reply[c].results) :
                /\ reply[c].results[i].title # << >>
                /\ \/ reply[c].results[i].url # << >>
                   \/ /\ SearchFailed(received[c])
                      /\ Len(reply[c].results) = 1
                      /\ reply[c].results[i].title = <<"Search error">>

\* A page with more containers than the limit, cut to limit records.
C1_Witness ==
    \E c \in CallIds :
        /\ SearchReturned(c) /\ LimitInRange(c)
        /\ ~SearchFailed(received[c])
        /\ Len(received[c].page) > call[c].arguments.limit.n
        /\ Len(reply[c].results) = call[c].arguments.limit.n

\* C3: on any failure of the search request or the parse, search returns
\* exactly one record: title "Search error", url "", description the error
\* message; the handler returns it as a result, not as an error.
C3_FailureGivesOneErrorRecord ==
    \A c \in CallIds :
        (SearchReturned(c) /\ SearchFailed(received[c])) =>
            /\ reply[c].kind = "search"
            /\ reply[c].results =
                 << [title |-> <<"Search error">>, url |-> << >>,
                     description |-> <<SearchFailureMessage(received[c])>>] >>

\* A search whose request was answered 503 has returned.
C3_Witness ==
    \E c \in CallIds :
        /\ SearchReturned(c)
        /\ received[c].kind = "response" /\ received[c].status = 503
        /\ Len(reply[c].results) = 1

\* C9: for every numeric limit the caller passes, the limit that bounds the
\* results (performSearch's limit) is within [1,10]; it is 5 when limit is
\* left out.
C9_LimitClamped ==
    \A c \in CallIds :
        (call[c].name = "search" /\ pc[c] \in {"awaiting", "returned"}) =>
            /\ frame[c].limit >= 1
            /\ frame[c].limit <= MAX_LIMIT
            /\ (TypeOf(call[c].arguments.limit) = "undefined"
                    => frame[c].limit = DEFAULT_LIMIT)

\* A container with a non-empty title and a non-empty url.
HasTitleAndUrl(el) ==
    /\ Trim(el.title) # << >>
    /\ el.href.t = "string"
    /\ el.href.s # << >>

\* C10: for a parsed results page, search returns exactly the first limit of
\* the containers that have title and url, in document order; the others are
\* skipped without counting, and a page with none of them gives << >>.
C10_FirstLimitOfValidContainers ==
    \A c \in CallIds :
        (SearchReturned(c) /\ ~SearchFailed(received[c])) =>
            LET valid == Take(SelectSeq(received[c].page, HasTitleAndUrl), frame[c].limit)
            IN  /\ Len(reply[c].results) = Len(valid)
                /\ \A i \in 1..Len(valid) :
                     reply[c].results[i] =
                        [title |-> Trim(valid[i].title), url |-> valid[i].href.s,
                         description |-> Trim(valid[i].snippet)]

\* A page whose first container is skipped and whose later ones fill the limit.
C10_Witness ==
    \E c \in CallIds :
        /\ SearchReturned(c) /\ ~SearchFailed(received[c])
        /\ Len(received[c].page) = 3
        /\ ~HasTitleAndUrl(received[c].page[1])
        /\ frame[c].limit = 2
        /\ Len(reply[c].results) = 2
        /\ reply[c].results[1].title # reply[c].results[2].title

\* The caller asked for redirects to be followed (the default).
FollowsRedirects(c) ==
    \/ TypeOf(call[c].arguments.follow_redirects) = "undefined"
    \/ call[c].arguments.follow_redirects.b

\* The fetch request failed: a transport failure, or a redirect chain longer
\* than the client follows.
FetchFailed(c) ==
    \/ received[c].kind = "error"
    \/ /\ received[c].kind = "response"
       /\ FollowsRedirects(c)
       /\ received[c].hops > MAX_REDIRECTS

\* The message of the failure the fetch request met.
FetchFailureMessage(c) ==
    IF received[c].kind = "error"
    THEN (CASE received[c].code = "ECONNABORTED" ->
                 (IF TypeOf(call[c].arguments.timeout_ms) = "undefined"
                  THEN "timeout of 15000ms exceeded"
                  ELSE "timeout of " \o ToString(call[c].arguments.timeout_ms.n)
                       \o "ms exceeded")
            [] received[c].code = "ENOTFOUND" -> "getaddrinfo ENOTFOUND"
            [] received[c].code = "ECONNREFUSED" -> "connect ECONNREFUSED")
    ELSE "Maximum number of redirects exceeded"

\* C2: fetch never raises; whenever the request fails it returns status 0,
\* content_type null, encoding null, headers {}, truncated false, the error
\* message as body, and url and final_url equal to the input url.
C2_FailureGivesStatusZeroResult ==
    \A c \in CallIds :
        FetchReturned(c) =>
            /\ reply[c].kind = "fetch"
            /\ FetchFailed(c) =>
                 reply[c].fetch =
                    [url |-> call[c].arguments.url.s,
                     final_url |-> call[c].arguments.url.s,
                     status |-> 0,
                     content_type |-> [t |-> "null", s |-> << >>],
                     encoding |-> [t |-> "null", s |-> << >>],
                     headers |-> {},
                     body |-> [head |-> <<FetchFailureMessage(c)>>, pad |-> 0],
                     truncated |-> FALSE]

\* A fetch whose request timed out has returned.
C2_Witness ==
    \E c \in CallIds :
        /\ FetchReturned(c)
        /\ received[c].kind = "error" /\ received[c].code = "ECONNABORTED"
        /\ TypeOf(call[c].arguments.timeout_ms) = "number"
        /\ reply[c].fetch.status = 0

\* The byte ceiling: max_bytes when it is a positive number, 200000 otherwise.
Ceiling(c) ==
    IF TypeOf(call[c].arguments.max_bytes) = "number" /\ call[c].arguments.max_bytes.n > 0
    THEN call[c].arguments.max_bytes.n
    ELSE 200000

\* The first k bytes of a buffer, 0 <= k <= its length.
PrefixOf(buffer, k) ==
    [head |-> SubSeq(buffer.head, 1, Min(k, Len(buffer.head))),
     pad |-> Max(0, k - Len(buffer.head))]

\* The text of the first min(length, ceiling) bytes of the body call c
\* received, in the encoding its result reports.
TextOfPrefix(c) ==
    LET raw == received[c].data
        length == Len(raw.head) + raw.pad
        enc == reply[c].fetch.encoding
    IN  DecodeBuffer(IF enc.t = "string" /\ enc.s \in Latin1Labels
                     THEN ISO_8859_1 ELSE UTF_8,
                     PrefixOf(raw, Min(length, Ceiling(c))))

\* C4: for every fetch that obtains a response, truncated is true exactly when
\* the raw body is longer than the ceiling, and a text body is decoded from
\* exactly the first min(length, ceiling) bytes.
C4_TruncatedIffLongerThanCeiling ==
    \A c \in CallIds :
        (FetchReturned(c) /\ ~FetchFailed(c)) =>
            /\ reply[c].fetch.truncated
                 <=> (Len(received[c].data.head) + received[c].data.pad > Ceiling(c))
            /\ reply[c].fetch.body # [head |-> <<"Unsupported content-type">>, pad |-> 0]
                 => reply[c].fetch.body = TextOfPrefix(c)

\* A text body longer than the default ceiling, cut in the filler.
C4_Witness ==
    \E c \in CallIds :
        /\ FetchReturned(c) /\ ~FetchFailed(c)
        /\ TypeOf(call[c].arguments.max_bytes) = "undefined"
        /\ reply[c].fetch.truncated
        /\ Len(received[c].data.head) = 2
        /\ reply[c].fetch.body.pad = 200000 - 2

\* The position of the first "/" of s (0: none).
SlashAt(s) ==
    IF \E i \in 1..Len(s) : s[i] = "/"
    THEN CHOOSE i \in 1..Len(s) : s[i] = "/" /\ \A j \in 1..(i - 1) : s[j] # "/"
    ELSE 0

\* The content type of a header, lower-cased (the first value of several).
MediaType(header) ==
    IF header.present THEN ToLowerCase(header.items[1]) ELSE << >>

\* C5's classes: image/*, audio/*, video/*, application/pdf, application/zip,
\* application/x-*, and exactly application/octet-stream.
BinaryContentType(header) ==
    LET media == MediaType(header)
        slash == SlashAt(media)
        main == SubSeq(media, 1, slash - 1)
        rest == SubSeq(media, slash + 1, Len(media))
    IN  /\ slash > 0
        /\ \/ main \in {<<"i", "m", "a", "g", "e">>, <<"a", "u", "d", "i", "o">>,
                        <<"v", "i", "d", "e", "o">>}
           \/ /\ main = <<"a", "p", "p", "l", "i", "c", "a", "t", "i", "o", "n">>
              /\ \/ SubSeq(rest, 1, 3) \in {<<"p", "d", "f">>, <<"z", "i", "p">>}
                 \/ SubSeq(rest, 1, 2) = <<"x", "-">>
                 \/ rest = <<"o", "c", "t", "e", "t", "-", "s", "t", "r", "e", "a", "m">>

\* C5: a response is binary exactly when its content type is in those
\* classes; a binary response yields "Unsupported content-type" whatever its
\* bytes, and any other response yields the decoded text.
C5_BinaryExactlyForListedTypes ==
    \A c \in CallIds :
        (FetchReturned(c) /\ ~FetchFailed(c)) =>
            IF BinaryContentType(received[c].contentType)
            THEN reply[c].fetch.body = [head |-> <<"Unsupported content-type">>, pad |-> 0]
            ELSE reply[c].fetch.body = TextOfPrefix(c)

\* An image answer with bytes in it, reported as unsupported.
C5_Witness ==
    \E c \in CallIds :
        /\ FetchReturned(c) /\ ~FetchFailed(c)
        /\ received[c].contentType = Header(CT_PNG_UPPER)
        /\ Len(received[c].data.head) > 0
        /\ reply[c].fetch.body = [head |-> <<"Unsupported content-type">>, pad |-> 0]

\* The caller passed follow_redirects = false.
RedirectsDisabled(c) ==
    /\ TypeOf(call[c].arguments.follow_redirects) = "boolean"
    /\ ~call[c].arguments.follow_redirects.b

\* C6: with follow_redirects = false, a URL that answers with a redirect
\* gives that redirect response (status 3xx), and final_url is the url asked.
C6_RedirectNotFollowed ==
    \A c \in CallIds :
        (/\ FetchReturned(c)
         /\ RedirectsDisabled(c)
         /\ received[c].kind = "response"
         /\ received[c].hops > 0) =>
            /\ reply[c].fetch.status >= 300
            /\ reply[c].fetch.status < 400
            /\ reply[c].fetch.url = call[c].arguments.url.s
            /\ reply[c].fetch.final_url = call[c].arguments.url.s

\* A redirect answer returned unfollowed, where the chain ends in a 200.
C6_Witness ==
    \E c \in CallIds :
        /\ FetchReturned(c) /\ RedirectsDisabled(c)
        /\ received[c].kind = "response" /\ received[c].hops = 1
        /\ received[c].status = 200
        /\ reply[c].fetch.status = 302

\* The status of the response a fetch call obtained.
ObtainedStatus(c) ==
    IF ~FollowsRedirects(c) /\ received[c].hops > 0 THEN 302 ELSE received[c].status

\* C7: status is 0 exactly when no response was obtained; an obtained
\* response, whatever its status code, gives its status and its headers.
C7_StatusZeroIffNoResponse ==
    \A c \in CallIds :
        FetchReturned(c) =>
            /\ reply[c].fetch.status = 0 <=> FetchFailed(c)
            /\ ~FetchFailed(c) =>
                 /\ reply[c].fetch.status = ObtainedStatus(c)
                 /\ {h \in reply[c].fetch.headers : h.name = "content-type"} =
                      (IF received[c].contentType.present
                       THEN {[name |-> "content-type",
                              array |-> received[c].contentType.array,
                              items |-> received[c].contentType.items]}
                       ELSE {})
                 /\ (\E h \in reply[c].fetch.headers : h.name = "location")
                      <=> (ObtainedStatus(c) = 302)

\* A 500 answer returned as a result.
C7_Witness ==
    \E c \in CallIds :
        /\ FetchReturned(c)
        /\ received[c].kind = "response" /\ received[c].status = 500
        /\ reply[c].fetch.status = 500
        /\ reply[c].fetch.headers # {}

\* The arguments the tools refuse, or a tool that does not exist.
InvalidCall(req) ==
    \/ req.name \notin {"search", "fetch"}
    \/ req.arguments.t # "object"
    \/ /\ req.name = "search"
       /\ \/ TypeOf(req.arguments.query) # "string"
          \/ TypeOf(req.arguments.limit) \notin {"undefined", "number"}
    \/ /\ req.name = "fetch"
       /\ \/ TypeOf(req.arguments.url) # "string"
          \/ TypeOf(req.arguments.max_bytes) \notin {"undefined", "number"}
          \/ TypeOf(req.arguments.timeout_ms) \notin {"undefined", "number"}
          \/ TypeOf(req.arguments.follow_redirects) \notin {"undefined", "boolean"}

\* C8: a call with invalid arguments, or of an unknown tool, is rejected with
\* a protocol error and no outbound request is issued for it.
C8_InvalidCallRejectedWithoutRequest ==
    \A c \in CallIds :
        (pc[c] # "idle" /\ InvalidCall(call[c])) =>
            /\ pc[c] = "rejected"
            /\ reply[c].kind = "error"
            /\ reply[c].code = (IF call[c].name \in {"search", "fetch"}
                                THEN "InvalidParams" ELSE "MethodNotFound")
            /\ outbound[c] = << >>

\* A fetch call refused for its follow_redirects while another call's request
\* is in flight.
C8_Witness ==
    \E c, d \in CallIds :
        /\ pc[c] = "rejected" /\ call[c].name = "fetch"
        /\ TypeOf(call[c].arguments.follow_redirects) = "string"
        /\ pc[d] = "awaiting" /\ Len(outbound[d]) = 1

\* The least and the greatest number of a non-empty finite set.
Least(S) == CHOOSE x \in S : \A y \in S : x <= y
Greatest(S) == CHOOSE x \in S : \A y \in S : x >= y

\* The charset parameter of a content-type header, trimmed and lower-cased:
\* what stands between the first "charset=" that has a value and the next ";"
\* (null when the header has none).
CharsetParameter(header) ==
    LET low == MediaType(header)
        starts == {i \in 1..(Len(low) - 8) :
                      /\ SubSeq(low, i, i + 7) = <<"c", "h", "a", "r", "s", "e", "t", "=">>
                      /\ low[i + 8] # ";"}
    IN  IF starts = {} THEN [t |-> "null", s |-> << >>]
        ELSE LET from == Least(starts) + 8
                 stops == {j \in from..Len(low) : low[j] = ";"}
                 to == IF stops = {} THEN Len(low) ELSE Least(stops) - 1
                 inner == {k \in from..to : low[k] \notin {" ", "\t", "\n"}}
             IN  [t |-> "string",
                  s |-> IF inner = {} THEN << >>
                        ELSE SubSeq(low, Least(inner), Greatest(inner))]

\* The first min(length, ceiling) bytes of the body call c received, decoded
\* as UTF-8.
Utf8TextOfPrefix(c) ==
    LET raw == received[c].data
        cut == PrefixOf(raw, Min(Len(raw.head) + raw.pad, Ceiling(c)))
    IN  [head |-> Utf8Decode(cut.head), pad |-> cut.pad]

\* C11: for a non-binary response, when decoding the truncated body with the
\* detected charset fails, the call still returns a normal result with the
\* response's status and headers, whose body is the UTF-8 decoding of the
\* truncated bytes; had no encoding been detected, that result's encoding
\* would be "utf-8".
C11_DecodeFailureFallsBackToUtf8 ==
    \A c \in CallIds :
        (/\ FetchReturned(c) /\ ~FetchFailed(c)
         /\ ~BinaryContentType(received[c].contentType)
         /\ frame[c].caught) =>
            /\ reply[c].kind = "fetch" /\ ~reply[c].isError
            /\ reply[c].fetch.status = ObtainedStatus(c)
            /\ reply[c].fetch.status # 0
            /\ reply[c].fetch.body = Utf8TextOfPrefix(c)
            /\ CharsetParameter(received[c].contentType).t = "null"
                 => reply[c].fetch.encoding =
                        [t |-> "string", s |-> <<"u", "t", "f", "-", "8">>]

\* A body of the two bytes of U+00E9 under a charset no decoder exists for,
\* returned as that one character with status 200.
C11_Witness ==
    \E c \in CallIds :
        /\ FetchReturned(c)
        /\ frame[c].caught
        /\ received[c].data = [head |-> <<195, 169>>, pad |-> 0]
        /\ reply[c].fetch.status = 200
        /\ reply[c].fetch.body = [head |-> <<"U+233">>, pad |-> 0]

\* What C12 says of call c in one state: while it waits it has issued one
\* request through the shared client and has no result; once it has returned
\* it has still issued that one request and has one result, which reports the
\* failure when the request failed.
OneRequestOneResult(c) ==
    /\ pc[c] = "awaiting" =>
         /\ Len(outbound[c]) = 1
         /\ outbound[c][1].client = httpClient
         /\ reply[c].kind = "none"
    /\ pc[c] = "returned" =>
         /\ Len(outbound[c]) = 1
         /\ outbound[c][1].client = httpClient
         /\ reply[c].kind = call[c].name
         /\ (call[c].name = "search" /\ received[c].kind = "error") =>
              /\ Len(reply[c].results) = 1
              /\ reply[c].results[1].title = <<"Search error">>
         /\ (call[c].name = "fetch" /\ FetchFailed(c)) =>
              /\ reply[c].fetch.status = 0
              /\ reply[c].fetch.body = [head |-> <<FetchFailureMessage(c)>>, pad |-> 0]

\* What C12 says of call c in one step: a waiting call issues no further
\* request, and a call that has returned stays returned with the same result.
NeverReattempted(c) ==
    /\ pc[c] = "awaiting" => outbound'[c] = outbound[c]
    /\ pc[c] = "returned" =>
         /\ pc'[c] = "returned"
         /\ outbound'[c] = outbound[c]
         /\ reply'[c] = reply[c]

\* C12: each accepted search or fetch call issues exactly one request through
\* the HTTP client and returns exactly one result; a failed or timed-out
\* request is reported once, in that result, and is never issued again.
C12_OneRequestOneResultNoRetry ==
    /\ [](\A c \in CallIds : OneRequestOneResult(c))
    /\ [][\A c \in CallIds : NeverReattempted(c)]_vars

\* A search whose request failed and a fetch whose request timed out have
\* both returned, each after one request.
C12_Witness ==
    \E c, d \in CallIds :
        /\ pc[c] = "returned" /\ call[c].name = "search"
        /\ received[c].kind = "error"
        /\ Len(outbound[c]) = 1 /\ Len(reply[c].results) = 1
        /\ pc[d] = "returned" /\ call[d].name = "fetch"
        /\ received[d].code = "ECONNABORTED"
        /\ Len(outbound[d]) = 1 /\ reply[d].fetch.status = 0

\* The values of the four proxy variables in the order of the claim.
ProxyVariables ==
    <<env.HTTPS_PROXY, env.https_proxy, env.HTTP_PROXY, env.http_proxy>>

\* The positions of the variables that hold a non-empty string.
NonEmptyProxyVariables ==
    {i \in 1..4 : ProxyVariables[i].t = "string" /\ ProxyVariables[i].s # ""}

\* C13: createHttpClient always returns a client.  The proxy address is the
\* first non-empty value among HTTPS_PROXY, https_proxy, HTTP_PROXY,
\* http_proxy; with none set the client is the direct one; when no agent can
\* be built for the chosen address one warning is logged and the client is the
\* direct one; otherwise the client tunnels through the chosen address and
\* nothing is logged.  Every request of a call goes through that client.
C13_ClientFromFirstNonEmptyProxyVariable ==
    /\ httpClient.instance \in {"axios", "created"}
    /\ IF NonEmptyProxyVariables = {}
       THEN httpClient = [instance |-> "axios", httpsAgent |-> ""] /\ warnings = 0
       ELSE LET address == ProxyVariables[Least(NonEmptyProxyVariables)].s
            IN  IF address \in InvalidProxyUrls
                THEN /\ httpClient = [instance |-> "axios", httpsAgent |-> ""]
                     /\ warnings = 1
                ELSE /\ httpClient = [instance |-> "created", httpsAgent |-> address]
                     /\ warnings = 0
    /\ \A c \in CallIds : \A i \in 1..Len(outbound[c]) : outbound[c][i].client = httpClient

\* HTTPS_PROXY is empty, https_proxy unset, HTTP_PROXY an address no agent can
\* be built for and http_proxy a good address: the warning was logged and a
\* call has sent its request through the direct client.
C13_Witness ==
    /\ env.HTTPS_PROXY = JsStr("")
    /\ env.https_proxy = JsUndefined
    /\ env.HTTP_PROXY.s \in InvalidProxyUrls
    /\ env.http_proxy = JsStr(PROXY_URL)
    /\ warnings = 1
    /\ \E c \in CallIds :
        /\ pc[c] = "returned"
        /\ outbound[c][1].client.instance = "axios"

\* The reply of call c as its own arguments and its own response determine
\* it, with the client the module created at startup.
OwnReply(c) ==
    LET args == call[c].arguments
        client == createHttpClient(env).client
    IN  IF call[c].name = "search"
        THEN SearchHandlerReturn(
                 performSearch(HandlerLimit(args),
                               AxiosGet(SearchConfig(args.query.s, client), received[c])))
        ELSE FetchReply(
                 fetchUrl(args, NormalizeMaxBytes(ArgMaxBytes(args)),
                          AxiosGet(FetchConfig(args.url.s, ArgTimeoutMs(args),
                                               ArgFollowRedirects(args), client),
                                   received[c])).result)

\* C14: under every interleaving of in-flight search and fetch calls, no step
\* changes the HTTP client created at startup, and the result of each call is
\* the one its own arguments and its own response determine, whatever the
\* other calls did.
C14_SharedClientUntouchedAndCallsIsolated ==
    /\ [][httpClient' = httpClient]_vars
    /\ [](/\ httpClient = createHttpClient(env).client
          /\ \A c \in CallIds : pc[c] = "returned" => reply[c] = OwnReply(c))

\* Two fetch calls with different ceilings and different responses were in
\* flight together, and both have returned.
C14_Witness ==
    \E c, d \in CallIds :
        /\ c # d
        /\ pc[c] = "returned" /\ pc[d] = "returned"
        /\ overlapped[c] \/ overlapped[d]
        /\ call[c].name = "fetch" /\ call[d].name = "fetch"
        /\ frame[c].maxBytes # frame[d].maxBytes
        /\ received[c] # received[d]
        /\ reply[c] # reply[d]

\* C15: for every fetch that obtains a response, the result's encoding is the
\* trimmed, lower-cased charset parameter of the content-type header when the
\* header has one and null otherwise, a binary response and a response whose
\* charset no decoder exists for included; the catch block of the decode step
\* never assigns "utf-8", because it runs only when a charset was detected.
C15_EncodingIsDetectedCharsetOrNull ==
    \A c \in CallIds :
        (FetchReturned(c) /\ ~FetchFailed(c)) =>
            /\ reply[c].fetch.encoding = CharsetParameter(received[c].contentType)
            /\ ~frame[c].assigned
            /\ frame[c].caught =>
                 /\ reply[c].fetch.encoding.t = "string"
                 /\ reply[c].fetch.encoding.s # << >>
                 /\ reply[c].fetch.encoding.s # <<"u", "t", "f", "-", "8">>

\* The catch block ran for "text/plain; charset=bogus" and the result still
\* reports the encoding "bogus".
C15_Witness ==
    \E c \in CallIds :
        /\ FetchReturned(c)
        /\ frame[c].caught
        /\ received[c].data.pad > 0
        /\ reply[c].fetch.truncated
        /\ reply[c].fetch.encoding = [t |-> "string", s |-> <<"b", "o", "g", "u", "s">>]

\* " UTF-8 " between "Charset=" and ";" was reported as "utf-8".
C15_WitnessTrimmed ==
    \E c \in CallIds :
        /\ FetchReturned(c)
        /\ received[c].contentType = Header(CT_HTML_SPACED)
        /\ reply[c].fetch.encoding = [t |-> "string", s |-> <<"u", "t", "f", "-", "8">>]

\* The text JSON.stringify(results, null, 2) gives for the one-record array a
\* failed search returns.
SentinelText(message) ==
    <<"[",
      "\n  {",
      "\n    \"title\": ", "\"", "Search error", "\"", ",",
      "\n    \"url\": ", "\"", "\"", ",",
      "\n    \"description\": ", "\"", message, "\"",
      "\n  }",
      "\n", "]">>

\* How many records a serialized array opens.
RecordsIn(text) == Cardinality({i \in 1..Len(text) : text[i] = "\n  {"})

\* C16: for every search call with valid arguments the handler's response is
\* the JSON text of a result array and does not carry isError = true, the
\* "Search error: <message>" text never being produced; a failed search
\* answers exactly as a successful one does, with the text of the one-record
\* array whose title is "Search error".
C16_SearchReplyNeverIsError ==
    \A c \in CallIds :
        SearchReturned(c) =>
            /\ reply[c].kind = "search"
            /\ ~reply[c].isError
            /\ reply[c].text[1] = "["
            /\ reply[c].text[Len(reply[c].text)] = "]"
            /\ \A i \in 1..Len(reply[c].text) : reply[c].text[i] # "Search error: "
            /\ RecordsIn(reply[c].text) = Len(reply[c].results)
            /\ reply[c].text = JsonStringify(reply[c].results)
            /\ SearchFailed(received[c]) =>
                 reply[c].text = SentinelText(SearchFailureMessage(received[c]))

\* A search whose request was refused has answered with the text of the
\* sentinel array and without isError.
C16_Witness ==
    \E c \in CallIds :
        /\ SearchReturned(c)
        /\ received[c].kind = "error" /\ received[c].code = "ECONNREFUSED"
        /\ ~reply[c].isError
        /\ reply[c].text = SentinelText("connect ECONNREFUSED")

\* A successful search has answered with two records, a `"` of a description
\* escaped in the text.
C16_WitnessEscaped ==
    \E c \in CallIds :
        /\ SearchReturned(c)
        /\ RecordsIn(reply[c].text) = 2
        /\ \E i \in 1..Len(reply[c].text) : reply[c].text[i] = "\\\""

====
